---- MODULE Spec2Model ----
(***************************************************************************)
(* A model of the extraction-and-dedup core of ss-scraper:                 *)
(*   - app/storage.py       Store.add_records, Store.clear                 *)
(*   - app/link_collect.py  normalize_url, same_host, collect_links_qt     *)
(*   - app/extract.py       EMAIL_REGEX, _dedup, extract_emails_from_html  *)
(*   - app/exporters.py     export_csv, export_xlsx                        *)
(*   - app/ui_main_window.py  MainWindow.export_csv, .export_xlsx          *)
(*   - app/stats.py         Counters                                       *)
(*   - app/navigation.py    wait_for_load                                  *)
(* Strings are sequences of one-character strings, so that lower-casing,   *)
(* prefix tests, splitting and re-joining are computed, not assumed.       *)
(***************************************************************************)
EXTENDS Integers, Sequences, FiniteSets, TLC

VARIABLES
    records,     \* Store.records: the history, a sequence of Record
    seen,        \* Store._seen: a set of strings
    uuidCalls,   \* number of uuid4() draws made by the process so far
    last,        \* the last completed call on the store: inputs, outcome, the state
                 \* before it, and the SeenSet the most recent clear() wiped
    submitted,   \* emails the store has consumed from its callers since construction
    cleared,     \* whether clear() has ever been called
    idLog,       \* every id ever given to a record, in creation order
    pc,          \* per task: the statement of add_records / clear it is about to run
    loc,         \* per task: the local variables of its add_records call
    started,     \* calls started by the tasks so far
    snapshot,    \* what a reader task last read from the store
    reads,       \* reads done so far
    url,         \* the string handed to normalize_url
    stage,       \* how many times normalize_url has been applied
    norm1,       \* normalize_url(url)
    norm2,       \* normalize_url(normalize_url(url))
    hostUrl,     \* the url handed to same_host
    allowedHosts,\* the allowed_hosts handed to same_host
    hostStage,   \* whether same_host has been called
    sameHost,    \* what same_host did: raised, or the boolean it returned
    view,        \* the view handed to collect_links_qt: whether toHtml raises,
                 \* and the hrefs of the anchors of its page in document order
    limit,       \* the limit handed to collect_links_qt
    linkHosts,   \* the allowed_hosts handed to collect_links_qt
    linkStage,   \* whether collect_links_qt has been called
    collected,   \* what collect_links_qt did: raised, or the list it returned
    html,        \* the page handed to extract_emails_from_html, as the parser
                 \* gives it: its anchors and text nodes in document order
    extractStage,\* whether extract_emails_from_html has been called
    extracted,   \* the emails list after the mailto step, and the list returned
    expRecords,  \* the records handed to exporters.export_csv / export_xlsx
    emailList,   \* MainWindow.emailList: the texts of the items of the list widget
    exportStage, \* whether an export has run
    exported,    \* the last export: which function, whether a file was written,
                 \* its header row and its data rows
    counters,    \* stats.counters: the fields of the Counters object
    today,       \* the calendar date, what date.today() returns
    sums,        \* the increments handed to inc_emails and made by inc_pages so far
    lastInc,     \* the last call on the counters: which, its n, the date it
                 \* read and the fields before it
    hasSignal,   \* whether the view handed to wait_for_load has a loadFinished signal
    timeout,     \* the timeout handed to wait_for_load, in ticks of the clock
    wait         \* the wait_for_load call: its position, its timer, the exit flag
                 \* of its event loop, the signals delivered, its locals

storeVars == <<records, seen, uuidCalls, last, submitted, cleared, idLog>>

taskVars == <<pc, loc, started, snapshot, reads>>

urlVars == <<url, stage, norm1, norm2>>

hostVars == <<hostUrl, allowedHosts, hostStage, sameHost>>

linkVars == <<view, limit, linkHosts, linkStage, collected>>

extractVars == <<html, extractStage, extracted>>

exportVars == <<expRecords, emailList, exportStage, exported>>

counterVars == <<counters, today, sums, lastInc>>

waitVars == <<hasSignal, timeout, wait>>

\* The variables of the exports, the counters and the page-load wait
lateVars == <<exportVars, counterVars, waitVars>>

\* The variables of the calls of the other pure functions
funVars == <<hostVars, linkVars, extractVars, lateVars>>

vars == <<records, seen, uuidCalls, last, submitted, cleared, idLog,
          pc, loc, started, snapshot, reads, url, stage, norm1, norm2,
          hostUrl, allowedHosts, hostStage, sameHost,
          view, limit, linkHosts, linkStage, collected,
          html, extractStage, extracted,
          expRecords, emailList, exportStage, exported,
          counters, today, sums, lastInc, hasSignal, timeout, wait>>

-----------------------------------------------------------------------------
(* Characters and str.lower *)

UpperChars == <<"A","B","C","D","E","F","G","H","I","J","K","L","M",
                "N","O","P","Q","R","S","T","U","V","W","X","Y","Z">>

LowerChars == <<"a","b","c","d","e","f","g","h","i","j","k","l","m",
                "n","o","p","q","r","s","t","u","v","w","x","y","z">>

LowerChar(c) ==
    IF \E i \in DOMAIN UpperChars : UpperChars[i] = c
    THEN LowerChars[CHOOSE i \in DOMAIN UpperChars : UpperChars[i] = c]
    ELSE c

\* str.lower()
Lower(s) == [i \in DOMAIN s |-> LowerChar(s[i])]

-----------------------------------------------------------------------------
(* Bounds and inputs of the store *)

\* Largest number of uuid4() draws in a behaviour (one per record created)
MaxUuid == 4

\* Longest batch handed to one add_records call
MaxBatch == 2

\* "a@x.co", "A@X.co" (equal after lower-casing) and "b@x.co"
Emails == { <<"a","@","x",".","c","o">>,
            <<"A","@","X",".","c","o">>,
            <<"b","@","x",".","c","o">> }

Batches == UNION { [1..n -> Emails] : n \in 0..MaxBatch }

\* Python's None
None == "<None>"

\* The meta argument: None, or a dict given by its items (metadata values are
\* opaque to the store and stay plain strings)
Metas == { [ none |-> TRUE,  items |-> {} ],
           [ none |-> FALSE, items |-> { <<"journal", "Nature">>, <<"topic", "ml">>,
                                         <<"source_url", "https://x.co/p">> } ] }

\* meta = meta or {}
MetaOrEmpty(meta) == IF meta.none \/ meta.items = {} THEN {} ELSE meta.items

\* dict.get(key, default)
DictGet(d, key, default) ==
    IF \E kv \in d : kv[1] = key
    THEN (CHOOSE kv \in d : kv[1] = key)[2]
    ELSE default

-----------------------------------------------------------------------------
(* Store.add_records, statement by statement *)

\* uuid4(): a fresh value at every draw
Uuid4(calls) == calls + 1

NewIdFromLength(calls, recs) == Len(recs) + 1

\* id=str(uuid4())
NewId(calls, recs) == Uuid4(calls)

\* duplicate = email in self._seen
IsDuplicate(seenNow, email) == email \in seenNow

MarkSeenNever(seenNow, email, duplicate) == seenNow

\* if not duplicate: self._seen.add(email)
MarkSeen(seenNow, email, duplicate) ==
    IF ~duplicate THEN seenNow \cup {email} ELSE seenNow

\* rec = Record(...)
MakeRecord(id, email, meta, duplicate) ==
    [ id         |-> id,
      email      |-> email,
      journal    |-> DictGet(meta, "journal", ""),
      topic      |-> DictGet(meta, "topic", None),
      verified   |-> "unknown",
      duplicate  |-> duplicate,
      source_url |-> DictGet(meta, "source_url", "") ]

AppendUnlessDuplicate(recs, rec) == IF rec.duplicate THEN recs ELSE Append(recs, rec)

\* self.records.append(rec)
AppendRecord(recs, rec) == Append(recs, rec)

\* if not duplicate: added.append(rec)
AppendAdded(added, rec) == IF ~rec.duplicate THEN Append(added, rec) ELSE added

\* One iteration of the for loop on a state st = [records, seen, added, calls]
AddOne(st, email, meta) ==
    LET duplicate == IsDuplicate(st.seen, email)
        seen1     == MarkSeen(st.seen, email, duplicate)
        rec       == MakeRecord(NewId(st.calls, st.records), email, meta, duplicate)
    IN  [ records |-> AppendRecord(st.records, rec),
          seen    |-> seen1,
          added   |-> AppendAdded(st.added, rec),
          calls   |-> st.calls + 1 ]

\* The for loop over the emails the iterable yields
RECURSIVE AddLoop(_, _, _)
AddLoop(st, emails, meta) ==
    IF emails = <<>> THEN st
    ELSE AddLoop(AddOne(st, Head(emails), meta), Tail(emails), meta)

ClearedSeenKept(s) == s

\* self._seen.clear()
ClearedSeen(s) == {}

\* self.records.clear()
ClearedRecords(r) == <<>>

-----------------------------------------------------------------------------
(* The store driven by one caller: every call runs to completion *)

NoCall == [ op |-> "none", prevOp |-> "none", emails |-> <<>>, raised |-> FALSE,
            returned |-> <<>>, preRecords |-> <<>>, preSeen |-> {}, wiped |-> {} ]

\* Tasks that share the module-level store
Tasks == {"t1", "t2"}

NoRecord == MakeRecord(0, <<>>, {}, FALSE)

IdleLoc == [ emails |-> <<>>, meta |-> {}, email |-> <<>>, duplicate |-> FALSE,
             rec |-> NoRecord, added |-> <<>> ]

NoSnapshot == [ records |-> <<>>, seen |-> {} ]

\* store = Store(): both containers empty
InitStore ==
    /\ records = <<>>
    /\ seen = {}
    /\ uuidCalls = 0
    /\ last = NoCall
    /\ submitted = 0
    /\ cleared = FALSE
    /\ idLog = <<>>

InitTasks ==
    /\ pc = [t \in Tasks |-> "idle"]
    /\ loc = [t \in Tasks |-> IdleLoc]
    /\ started = 0
    /\ snapshot = NoSnapshot
    /\ reads = 0

\* No URL is being normalized
IdleUrl ==
    /\ url = <<>>
    /\ stage = 0
    /\ norm1 = [ raised |-> FALSE, value |-> <<>> ]
    /\ norm2 = [ raised |-> FALSE, value |-> <<>> ]

\* same_host has not been called
IdleHost ==
    /\ hostUrl = <<>>
    /\ allowedHosts = <<>>
    /\ hostStage = 0
    /\ sameHost = [ raised |-> FALSE, value |-> FALSE ]

\* collect_links_qt has not been called
IdleLinks ==
    /\ view = [ raises |-> FALSE, hrefs |-> <<>> ]
    /\ limit = 1
    /\ linkHosts = <<>>
    /\ linkStage = 0
    /\ collected = [ raised |-> FALSE, error |-> "none", links |-> <<>> ]

\* extract_emails_from_html has not been called
IdleExtract ==
    /\ html = <<>>
    /\ extractStage = 0
    /\ extracted = [ mailto |-> <<>>, emails |-> <<>> ]

\* No export has run
IdleExport ==
    /\ expRecords = <<>>
    /\ emailList = <<>>
    /\ exportStage = 0
    /\ exported = [ by |-> "none", format |-> "none", wrote |-> FALSE,
                    header |-> <<>>, rows |-> <<>> ]

\* Counters(): every counter is 0 and _last is the date the module was loaded
NewCounters ==
    [ emails_today |-> 0, emails_session |-> 0, pages_today |-> 0,
      pages_session |-> 0, lastDate |-> 0 ]

\* counters = Counters(), and no call made on it
InitCounters ==
    /\ counters = NewCounters
    /\ today = 0
    /\ sums = [ emails |-> 0, pages |-> 0 ]
    /\ lastInc = [ op |-> "none", n |-> 0, date |-> 0, pre |-> NewCounters ]

\* wait_for_load at its first statement: no timer running, no event loop
NotWaiting ==
    [ pc |-> "start", timerActive |-> FALSE, remaining |-> 0, entered |-> FALSE,
      quit |-> FALSE, order |-> <<>>, finished |-> FALSE, result |-> "none" ]

\* wait_for_load has not been called
IdleWait ==
    /\ hasSignal = FALSE
    /\ timeout = 0
    /\ wait = NotWaiting

\* No export, counter call or page-load wait is under way
IdleLate == IdleExport /\ InitCounters /\ IdleWait

\* No call of a pure function other than normalize_url is under way
IdleFuns == IdleHost /\ IdleLinks /\ IdleExtract /\ IdleLate

Init == InitStore /\ InitTasks /\ IdleUrl /\ IdleFuns

\* add_records(emails, meta): the iterable yields `emails` and then either ends
\* or raises; an exception leaves the loop and propagates to the caller.
AddRecords ==
    \E emails \in Batches, meta \in Metas, raises \in BOOLEAN :
        /\ uuidCalls + Len(emails) <= MaxUuid
        /\ LET st0 == [ records |-> records, seen |-> seen,
                        added |-> <<>>, calls |-> uuidCalls ]
               st1 == AddLoop(st0, emails, MetaOrEmpty(meta))
           IN  /\ records' = st1.records
               /\ seen' = st1.seen
               /\ uuidCalls' = st1.calls
               /\ idLog' = idLog \o
                    [ i \in 1..(Len(st1.records) - Len(records)) |->
                        st1.records[Len(records) + i].id ]
               /\ last' = [ op |-> "add", prevOp |-> last.op, emails |-> emails,
                            raised |-> raises,
                            returned |-> IF raises THEN <<>> ELSE st1.added,
                            preRecords |-> records, preSeen |-> seen,
                            wiped |-> last.wiped ]
        /\ submitted' = submitted + Len(emails)
        /\ UNCHANGED cleared
        /\ UNCHANGED <<taskVars, urlVars, funVars>>

\* clear()
Clear ==
    /\ records' = ClearedRecords(records)
    /\ seen' = ClearedSeen(seen)
    /\ last' = [ op |-> "clear", prevOp |-> last.op, emails |-> <<>>,
                 raised |-> FALSE, returned |-> <<>>,
                 preRecords |-> records, preSeen |-> seen, wiped |-> seen ]
    /\ cleared' = TRUE
    /\ UNCHANGED <<uuidCalls, submitted, idLog>>
    /\ UNCHANGED <<taskVars, urlVars, funVars>>

Next == AddRecords \/ Clear

Spec == Init /\ [][Next]_vars

-----------------------------------------------------------------------------
(* Properties of the store under one caller *)

\* The records the last add_records call created
Created == SubSeq(records, Len(last.preRecords) + 1, Len(records))

CompletedAdd == last.op = "add" /\ ~last.raised

\* C1: an email equal, after lower-casing, to the email of a record already in
\* the history gets a record with duplicate = TRUE, and the history holds both.
C1_CaseInsensitiveDedup ==
    ( /\ CompletedAdd
      /\ Len(last.emails) = 1
      /\ \E k \in DOMAIN last.preRecords :
            Lower(last.preRecords[k].email) = Lower(last.emails[1]) )
    => /\ Len(records) = Len(last.preRecords) + 1
       /\ records[Len(records)].duplicate = TRUE

\* C2: within one call every email gets a record, in input order; the first
\* occurrence of an address not seen before the call is not a duplicate, every
\* later occurrence is, and exactly one of them is returned.
C2_WithinCallDedup ==
    CompletedAdd =>
        LET es == last.emails
            cr == Created
        IN  /\ Len(cr) = Len(es)
            /\ \A i \in DOMAIN es :
                LET first == ~ \E k \in 1..(i - 1) : es[k] = es[i]
                IN  /\ cr[i].email = es[i]
                    /\ (first /\ es[i] \notin last.preSeen) => ~cr[i].duplicate
                    /\ ~first => cr[i].duplicate
                    /\ es[i] \notin last.preSeen =>
                         Cardinality({ k \in DOMAIN last.returned :
                                         last.returned[k].email = es[i] }) = 1

C2_Witness ==
    /\ CompletedAdd
    /\ \E i, j \in DOMAIN last.emails :
          /\ i < j
          /\ last.emails[i] = last.emails[j]
          /\ last.emails[i] \notin last.preSeen
    /\ last.preRecords # <<>>

NotDuplicate(r) == ~r.duplicate

\* C3: the returned sequence is the created records that are not duplicates, in
\* order, and the SeenSet gains exactly their lower-cased emails.
C3_ReturnedAndSeen ==
    CompletedAdd =>
        /\ last.returned = SelectSeq(Created, NotDuplicate)
        /\ seen = last.preSeen \cup
                    { Lower(last.returned[k].email) : k \in DOMAIN last.returned }

\* C4: with no clear the history is as long as the number of emails submitted,
\* and every add_records call keeps the old history as a prefix of the new one.
C4_AppendOnly ==
    /\ ~cleared => Len(records) = submitted
    /\ last.op = "add" =>
         /\ Len(records) >= Len(last.preRecords)
         /\ SubSeq(records, 1, Len(last.preRecords)) = last.preRecords

C4_Witness ==
    /\ last.op = "add"
    /\ ~cleared
    /\ last.preRecords # <<>>
    /\ \E k \in DOMAIN Created : Created[k].duplicate

\* C5: clear() leaves the history and the SeenSet empty, and the next
\* add_records([e]) creates a record that is not a duplicate and returns it.
C5_ClearResets ==
    /\ last.op = "clear" => (records = <<>> /\ seen = {})
    /\ ( /\ CompletedAdd
         /\ last.prevOp = "clear"
         /\ Len(last.emails) = 1 )
       => /\ Len(records) = 1
          /\ records[1].email = last.emails[1]
          /\ ~records[1].duplicate
          /\ last.returned = <<records[1]>>

C5_Witness ==
    /\ CompletedAdd
    /\ last.prevOp = "clear"
    /\ Len(last.emails) = 1
    /\ last.emails[1] \in last.wiped

\* C8: a call that fails partway leaves the history and the SeenSet as they
\* were before the call.
C8_AllOrNothing ==
    (last.op = "add" /\ last.raised) =>
        (records = last.preRecords /\ seen = last.preSeen)

\* C9: no two records ever created carry the same id, across clears too, and
\* a record's id does not change after creation.
C9_UniqueIds ==
    /\ \A i, j \in DOMAIN idLog : i # j => idLog[i] # idLog[j]
    /\ \A k \in DOMAIN records : \E i \in DOMAIN idLog : idLog[i] = records[k].id
    /\ last.op = "add" =>
         \A k \in DOMAIN last.preRecords :
            k \in DOMAIN records /\ records[k].id = last.preRecords[k].id

C9_Witness ==
    /\ last.op = "add"
    /\ cleared
    /\ last.preRecords # <<>>
    /\ Len(records) > Len(last.preRecords)
    /\ Len(idLog) > Len(records)

-----------------------------------------------------------------------------
(* The store shared by several tasks. Store takes no lock, so a task switch *)
(* can fall between any two statements of add_records and clear; a single   *)
(* set.add, list.append or clear() is one step.                             *)

\* Calls the tasks start in one behaviour
MaxCalls == 2

\* Reads the reader task does in one behaviour
MaxReads == 1

\* "a@x.co" and "b@x.co"
TaskEmails == { <<"a","@","x",".","c","o">>, <<"b","@","x",".","c","o">> }

\* Batches the tasks submit: one email each (the loop body runs once and the
\* loop then ends; the race needs no more)
TaskBatches == { <<e>> : e \in TaskEmails }

\* The tasks pass no meta
TaskMetas == { [ none |-> TRUE, items |-> {} ] }

Goto(t, label) == pc' = [pc EXCEPT ![t] = label]

\* add_records, lines 30-31: meta = meta or {}; added = []
TCall(t) ==
    /\ pc[t] = "idle"
    /\ started < MaxCalls
    /\ \E emails \in TaskBatches, meta \in TaskMetas :
         loc' = [loc EXCEPT ![t] = [IdleLoc EXCEPT !.emails = emails,
                                                   !.meta = MetaOrEmpty(meta)]]
    /\ started' = started + 1
    /\ Goto(t, "for")
    /\ UNCHANGED <<storeVars, snapshot, reads>>
    /\ UNCHANGED <<urlVars, funVars>>

\* line 32: for email in emails
TFor(t) ==
    /\ pc[t] = "for"
    /\ IF loc[t].emails = <<>>
       THEN /\ Goto(t, "return")
            /\ UNCHANGED loc
       ELSE /\ loc' = [loc EXCEPT ![t].email = Head(loc[t].emails),
                                  ![t].emails = Tail(loc[t].emails)]
            /\ Goto(t, "check")
    /\ UNCHANGED <<storeVars, started, snapshot, reads>>
    /\ UNCHANGED <<urlVars, funVars>>

\* line 33: duplicate = email in self._seen
TCheck(t) ==
    /\ pc[t] = "check"
    /\ loc' = [loc EXCEPT ![t].duplicate = IsDuplicate(seen, loc[t].email)]
    /\ Goto(t, "mark")
    /\ UNCHANGED <<storeVars, started, snapshot, reads>>
    /\ UNCHANGED <<urlVars, funVars>>

\* lines 34-35: if not duplicate: self._seen.add(email)
TMark(t) ==
    /\ pc[t] = "mark"
    /\ seen' = MarkSeen(seen, loc[t].email, loc[t].duplicate)
    /\ Goto(t, "make")
    /\ UNCHANGED <<records, uuidCalls, last, submitted, cleared, idLog,
                   loc, started, snapshot, reads>>
    /\ UNCHANGED <<urlVars, funVars>>

\* lines 36-45: rec = Record(id=str(uuid4()), ...)
TMake(t) ==
    /\ pc[t] = "make"
    /\ LET rec == MakeRecord(NewId(uuidCalls, records), loc[t].email,
                             loc[t].meta, loc[t].duplicate)
       IN  /\ loc' = [loc EXCEPT ![t].rec = rec]
           /\ idLog' = Append(idLog, rec.id)
    /\ uuidCalls' = uuidCalls + 1
    /\ Goto(t, "append")
    /\ UNCHANGED <<records, seen, last, submitted, cleared, started, snapshot, reads>>
    /\ UNCHANGED <<urlVars, funVars>>

\* line 46: self.records.append(rec)
TAppend(t) ==
    /\ pc[t] = "append"
    /\ records' = AppendRecord(records, loc[t].rec)
    /\ Goto(t, "added")
    /\ UNCHANGED <<seen, uuidCalls, last, submitted, cleared, idLog,
                   loc, started, snapshot, reads>>
    /\ UNCHANGED <<urlVars, funVars>>

\* lines 47-48: if not duplicate: added.append(rec)
TAdded(t) ==
    /\ pc[t] = "added"
    /\ loc' = [loc EXCEPT ![t].added = AppendAdded(loc[t].added, loc[t].rec)]
    /\ Goto(t, "for")
    /\ UNCHANGED <<storeVars, started, snapshot, reads>>
    /\ UNCHANGED <<urlVars, funVars>>

\* line 49: return added
TReturn(t) ==
    /\ pc[t] = "return"
    /\ loc' = [loc EXCEPT ![t] = IdleLoc]
    /\ Goto(t, "idle")
    /\ UNCHANGED <<storeVars, started, snapshot, reads>>
    /\ UNCHANGED <<urlVars, funVars>>

\* clear, line 52: self.records.clear()
TClearRecords(t) ==
    /\ pc[t] = "idle"
    /\ started < MaxCalls
    /\ started' = started + 1
    /\ records' = ClearedRecords(records)
    /\ Goto(t, "clear_seen")
    /\ UNCHANGED <<seen, uuidCalls, last, submitted, cleared, idLog,
                   loc, snapshot, reads>>
    /\ UNCHANGED <<urlVars, funVars>>

\* clear, line 53: self._seen.clear()
TClearSeen(t) ==
    /\ pc[t] = "clear_seen"
    /\ seen' = ClearedSeen(seen)
    /\ Goto(t, "idle")
    /\ UNCHANGED <<records, uuidCalls, last, submitted, cleared, idLog,
                   loc, started, snapshot, reads>>
    /\ UNCHANGED <<urlVars, funVars>>

\* A reader (display, export) reads the history and the SeenSet
Read ==
    /\ reads < MaxReads
    /\ reads' = reads + 1
    /\ snapshot' = [ records |-> records, seen |-> seen ]
    /\ UNCHANGED <<storeVars, pc, loc, started>>
    /\ UNCHANGED <<urlVars, funVars>>

TaskNext ==
    \/ \E t \in Tasks : TCall(t)
    \/ \E t \in Tasks : TFor(t)
    \/ \E t \in Tasks : TCheck(t)
    \/ \E t \in Tasks : TMark(t)
    \/ \E t \in Tasks : TMake(t)
    \/ \E t \in Tasks : TAppend(t)
    \/ \E t \in Tasks : TAdded(t)
    \/ \E t \in Tasks : TReturn(t)
    \/ \E t \in Tasks : TClearRecords(t)
    \/ \E t \in Tasks : TClearSeen(t)
    \/ Read

SpecTasks == Init /\ [][TaskNext]_vars

\* C6: with two tasks in add_records, the history never holds two records
\* with duplicate = FALSE for the same email.
C6_NoDoubleInsert ==
    \A i, j \in DOMAIN records :
        (i # j /\ records[i].email = records[j].email)
            => (records[i].duplicate \/ records[j].duplicate)

\* C7: a reader never sees the history emptied while the SeenSet still holds
\* entries, nor an email in the SeenSet whose non-duplicate record is not yet
\* in the history.
C7_SnapshotReads ==
    /\ snapshot.records = <<>> => snapshot.seen = {}
    /\ \A e \in snapshot.seen :
         \E k \in DOMAIN snapshot.records :
            snapshot.records[k].email = e /\ ~snapshot.records[k].duplicate

-----------------------------------------------------------------------------
(* Strings as sequences of characters: the str methods link_collect.py uses *)

\* s[:n]; a slice past the end stops at the end
Take(s, n) == IF n >= Len(s) THEN s ELSE SubSeq(s, 1, n)

\* s[n:]
Drop(s, n) == IF n >= Len(s) THEN <<>> ELSE SubSeq(s, n + 1, Len(s))

\* str.startswith
StartsWith(s, p) == Len(s) >= Len(p) /\ Take(s, Len(p)) = p

\* str.endswith
EndsWith(s, p) == Len(s) >= Len(p) /\ Drop(s, Len(s) - Len(p)) = p

\* c in s
Contains(s, c) == \E i \in 1..Len(s) : s[i] = c

\* str.find(c, start), 1-based; 0 when c does not occur at or after start
FindFrom(s, c, start) ==
    IF \E i \in start..Len(s) : s[i] = c
    THEN CHOOSE i \in start..Len(s) :
            s[i] = c /\ \A j \in start..(i - 1) : s[j] # c
    ELSE 0

Find(s, c) == FindFrom(s, c, 1)

\* str.split(c)
RECURSIVE Split(_, _)
Split(s, c) ==
    IF ~Contains(s, c) THEN <<s>>
    ELSE <<Take(s, Find(s, c) - 1)>> \o Split(Drop(s, Find(s, c)), c)

\* s cut at position i into the text before it and the text after it
CutAt(s, i) == <<Take(s, i - 1), Drop(s, i)>>

\* str.split(c, 1)
SplitOnce(s, c) == IF ~Contains(s, c) THEN <<s>> ELSE CutAt(s, Find(s, c))

\* url, rest = url.split(c, 1) when c occurs in url, and rest = "" otherwise
CutOff(s, c) == IF ~Contains(s, c) THEN <<s, <<>>>> ELSE CutAt(s, Find(s, c))

\* sep.join(parts)
RECURSIVE Join(_, _)
Join(parts, sep) ==
    IF parts = <<>> THEN <<>>
    ELSE IF Len(parts) = 1 THEN parts[1]
    ELSE parts[1] \o sep \o Join(Tail(parts), sep)

\* str.rstrip(chars)
RECURSIVE RStrip(_, _)
RStrip(s, chars) ==
    IF Len(s) > 0 /\ s[Len(s)] \in chars THEN RStrip(Take(s, Len(s) - 1), chars)
    ELSE s

\* str.lstrip(chars)
RECURSIVE LStrip(_, _)
LStrip(s, chars) ==
    IF Len(s) > 0 /\ s[1] \in chars THEN LStrip(Tail(s), chars)
    ELSE s

\* str.replace(c, "") for every c in chars
RemoveChars(s, chars) == SelectSeq(s, LAMBDA c : c \notin chars)

\* str.replace(a, b) for single characters
ReplaceChar(s, a, b) == [i \in 1..Len(s) |-> IF s[i] = a THEN b ELSE s[i]]

Digits == {"0","1","2","3","4","5","6","7","8","9"}

Letters == { UpperChars[i] : i \in DOMAIN UpperChars } \cup
           { LowerChars[i] : i \in DOMAIN LowerChars }

-----------------------------------------------------------------------------
(* Percent-encoding: urllib.parse.quote_plus and unquote on printable ASCII *)

\* The printable ASCII characters, codes 32..126, in code order (the grave
\* accent, code 96, cannot be written in a string here and is spelled out)
Ascii == <<" ", "!", "\"", "#", "$", "%", "&", "'", "(", ")", "*", "+", ",", "-", ".", "/",
          "0", "1", "2", "3", "4", "5", "6", "7", "8", "9", ":", ";", "<", "=", ">", "?",
          "@", "A", "B", "C", "D", "E", "F", "G", "H", "I", "J", "K", "L", "M", "N", "O",
          "P", "Q", "R", "S", "T", "U", "V", "W", "X", "Y", "Z", "[", "\\", "]", "^", "_",
          "GRAVE", "a", "b", "c", "d", "e", "f", "g", "h", "i", "j", "k", "l", "m", "n", "o",
          "p", "q", "r", "s", "t", "u", "v", "w", "x", "y", "z", "{", "|", "}", "~">>

FirstAscii == 32

Ord(c) == (CHOOSE i \in DOMAIN Ascii : Ascii[i] = c) + FirstAscii - 1

Chr(n) == Ascii[n - FirstAscii + 1]

HexDigits == <<"0","1","2","3","4","5","6","7","8","9","A","B","C","D","E","F">>

IsHexDigit(c) == \E i \in DOMAIN HexDigits : HexDigits[i] = c \/ LowerChar(HexDigits[i]) = c

HexValue(c) ==
    (CHOOSE i \in DOMAIN HexDigits : HexDigits[i] = c \/ LowerChar(HexDigits[i]) = c) - 1

\* quote(): '%XX' with upper-case hex digits
PercentEncode(c) ==
    <<"%", HexDigits[(Ord(c) \div 16) + 1], HexDigits[(Ord(c) % 16) + 1]>>

\* Characters quote() never encodes
AlwaysSafe == Letters \cup Digits \cup {"_", ".", "-", "~"}

\* quote(s, safe)
RECURSIVE Quote(_, _)
Quote(s, safe) ==
    IF s = <<>> THEN <<>>
    ELSE (IF s[1] \in AlwaysSafe \cup safe THEN <<s[1]>> ELSE PercentEncode(s[1]))
         \o Quote(Tail(s), safe)

\* quote_plus(s): a space becomes '+', everything else as quote(s, safe='')
QuotePlus(s) ==
    IF ~Contains(s, " ") THEN Quote(s, {})
    ELSE ReplaceChar(Quote(s, {" "}), " ", "+")

\* unquote_to_bytes on the pieces after each '%': two hex digits decode to a
\* character, anything else keeps its '%'. (Escapes of this model's inputs
\* stay within printable ASCII, where bytes and characters coincide.)
RECURSIVE UnquoteItems(_)
UnquoteItems(items) ==
    IF items = <<>> THEN <<>>
    ELSE LET item == items[1]
         IN  (IF Len(item) >= 2 /\ IsHexDigit(item[1]) /\ IsHexDigit(item[2])
              THEN <<Chr(16 * HexValue(item[1]) + HexValue(item[2]))>> \o Drop(item, 2)
              ELSE <<"%">> \o item)
             \o UnquoteItems(Tail(items))

\* unquote(s)
UnquoteBits(bits) == bits[1] \o UnquoteItems(Tail(bits))

Unquote(s) == IF ~Contains(s, "%") THEN s ELSE UnquoteBits(Split(s, "%"))

-----------------------------------------------------------------------------
(* urllib.parse.urlsplit / urlunsplit / parse_qsl / urlencode, posixpath.normpath *)

\* _WHATWG_C0_CONTROL_OR_SPACE, as far as this model's characters go
C0ControlOrSpace == {" ", "\t", "\n", "\r"}

\* _UNSAFE_URL_BYTES_TO_REMOVE
UnsafeUrlChars == {"\t", "\r", "\n"}

\* scheme_chars
SchemeChars == Letters \cup Digits \cup {"+", "-", "."}

\* uses_netloc
UsesNetloc == { <<>>,
    <<"f", "t", "p">>,
    <<"h", "t", "t", "p">>,
    <<"g", "o", "p", "h", "e", "r">>,
    <<"n", "n", "t", "p">>,
    <<"t", "e", "l", "n", "e", "t">>,
    <<"i", "m", "a", "p">>,
    <<"w", "a", "i", "s">>,
    <<"f", "i", "l", "e">>,
    <<"m", "m", "s">>,
    <<"h", "t", "t", "p", "s">>,
    <<"s", "h", "t", "t", "p">>,
    <<"s", "n", "e", "w", "s">>,
    <<"p", "r", "o", "s", "p", "e", "r", "o">>,
    <<"r", "t", "s", "p">>,
    <<"r", "t", "s", "p", "u">>,
    <<"r", "s", "y", "n", "c">>,
    <<"s", "v", "n">>,
    <<"s", "v", "n", "+", "s", "s", "h">>,
    <<"s", "f", "t", "p">>,
    <<"n", "f", "s">>,
    <<"g", "i", "t">>,
    <<"g", "i", "t", "+", "s", "s", "h">>,
    <<"w", "s">>,
    <<"w", "s", "s">> }

\* _check_bracketed_host accepts an IPv6 or IPvFuture literal and raises on
\* anything else; of the bracketed hosts this model feeds it, these are valid
ValidBracketedHosts == { <<":", ":", "1">> }

\* The text between the first '[' and the following ']'
BracketedHost(netloc) == CutOff(Drop(netloc, Find(netloc, "[")), "]")[1]

\* The checks of urlsplit that raise ValueError
NetlocRaises(netloc) ==
    \/ Contains(netloc, "[") /\ ~Contains(netloc, "]")
    \/ Contains(netloc, "]") /\ ~Contains(netloc, "[")
    \/ /\ Contains(netloc, "[")
       /\ Contains(netloc, "]")
       /\ BracketedHost(netloc) \notin ValidBracketedHosts

\* _splitnetloc(url, 2): the end of the authority, the first of '/', '?', '#'
\* after the leading '//' (1-based position; Len(url) + 1 when there is none)
NetlocEnd(u) ==
    IF \E i \in 3..Len(u) : u[i] \in {"/", "?", "#"}
    THEN CHOOSE i \in 3..Len(u) :
            u[i] \in {"/", "?", "#"} /\ \A j \in 3..(i - 1) : u[j] \notin {"/", "?", "#"}
    ELSE Len(u) + 1

\* url.lstrip(_WHATWG_C0_CONTROL_OR_SPACE) and the removal of the unsafe bytes
CleanUrl(url0) == RemoveChars(LStrip(url0, C0ControlOrSpace), UnsafeUrlChars)

\* i > 0 and url[0].isascii() and url[0].isalpha() and every character before
\* the colon is a scheme character (colon: 1-based position of the first ':')
HasScheme(u, colon) ==
    /\ colon > 1
    /\ u[1] \in Letters
    /\ \A k \in 1..(colon - 1) : u[k] \in SchemeChars

\* scheme, url = url[:i].lower(), url[i+1:]
SchemeAt(u, colon) ==
    IF HasScheme(u, colon)
    THEN [ scheme |-> Lower(Take(u, colon - 1)), rest |-> Drop(u, colon) ]
    ELSE [ scheme |-> <<>>, rest |-> u ]

SplitScheme(u) == SchemeAt(u, Find(u, ":"))

\* if url[:2] == '//': netloc, url = _splitnetloc(url, 2)
NetlocAt(u, end) ==
    IF StartsWith(u, <<"/", "/">>)
    THEN [ netloc |-> SubSeq(u, 3, end - 1), rest |-> Drop(u, end - 1) ]
    ELSE [ netloc |-> <<>>, rest |-> u ]

SplitNetloc(u) == NetlocAt(u, NetlocEnd(u))

\* SplitResult(scheme, netloc, url, query, fragment), or the ValueError
SplitResult(s, n, pathQuery, fragment) ==
    [ raised   |-> NetlocRaises(n.netloc),
      scheme   |-> s.scheme,
      netloc   |-> n.netloc,
      path     |-> pathQuery[1],
      query    |-> pathQuery[2],
      fragment |-> fragment ]

\* if '?' in url: url, query = url.split('?', 1)
SplitQuery(s, n, urlFragment) ==
    SplitResult(s, n, CutOff(urlFragment[1], "?"), urlFragment[2])

\* if '#' in url: url, fragment = url.split('#', 1)
SplitFragment(s, n) == SplitQuery(s, n, CutOff(n.rest, "#"))

SplitAuthority(s) == SplitFragment(s, SplitNetloc(s.rest))

\* urlsplit(url)
Urlsplit(url0) == SplitAuthority(SplitScheme(CleanUrl(url0)))

\* if netloc or (scheme and scheme in uses_netloc and url[:2] != '//'):
\*     if url and url[:1] != '/': url = '/' + url
\*     url = '//' + (netloc or '') + url
WithNetloc(scheme, netloc, path) ==
    IF \/ netloc # <<>>
       \/ (scheme # <<>> /\ scheme \in UsesNetloc /\ Take(path, 2) # <<"/", "/">>)
    THEN <<"/", "/">> \o netloc \o
         (IF path # <<>> /\ path[1] # "/" THEN <<"/">> \o path ELSE path)
    ELSE path

\* if scheme: url = scheme + ':' + url
WithScheme(scheme, u) == IF scheme # <<>> THEN scheme \o <<":">> \o u ELSE u

\* if query: url = url + '?' + query (and the same for '#' + fragment)
WithSuffix(u, mark, suffix) == IF suffix # <<>> THEN u \o <<mark>> \o suffix ELSE u

\* urlunsplit((scheme, netloc, url, query, fragment))
Urlunsplit(scheme, netloc, path, query, fragment) ==
    WithSuffix(WithSuffix(WithScheme(scheme, WithNetloc(scheme, netloc, path)),
                          "?", query),
               "#", fragment)

\* The body of the loop of posixpath.normpath for one component
NormComp(comp, newComps, initialSlashes) ==
    IF comp = <<>> \/ comp = <<".">> THEN newComps
    ELSE IF \/ comp # <<".", ".">>
            \/ (initialSlashes = 0 /\ newComps = <<>>)
            \/ (newComps # <<>> /\ newComps[Len(newComps)] = <<".", ".">>)
         THEN Append(newComps, comp)
    ELSE IF newComps # <<>> THEN Take(newComps, Len(newComps) - 1)
    ELSE newComps

\* The loop of posixpath.normpath over the components
RECURSIVE NormComps(_, _, _)
NormComps(comps, newComps, initialSlashes) ==
    IF comps = <<>> THEN newComps
    ELSE NormComps(Tail(comps), NormComp(comps[1], newComps, initialSlashes),
                   initialSlashes)

\* initial_slashes: POSIX allows one or two initial slashes and treats three
\* or more as one
InitialSlashes(path) ==
    IF ~StartsWith(path, <<"/">>) THEN 0
    ELSE IF StartsWith(path, <<"/", "/">>) /\ ~StartsWith(path, <<"/", "/", "/">>)
         THEN 2
    ELSE 1

\* path or dot
OrDot(path) == IF path = <<>> THEN <<".">> ELSE path

\* posixpath.normpath(path)
NormpathFrom(path, initialSlashes) ==
    OrDot([i \in 1..initialSlashes |-> "/"] \o
          Join(NormComps(Split(path, "/"), <<>>, initialSlashes), <<"/">>))

Normpath(path) ==
    IF path = <<>> THEN <<".">> ELSE NormpathFrom(path, InitialSlashes(path))

\* parse_qsl: one name=value field to a pair
QslPair(nameValue) ==
    <<Unquote(ReplaceChar(CutOff(nameValue, "=")[1], "+", " ")),
      Unquote(ReplaceChar(CutOff(nameValue, "=")[2], "+", " "))>>

RECURSIVE QslFields(_)
QslFields(fields) ==
    IF fields = <<>> THEN <<>>
    ELSE (IF fields[1] = <<>> THEN <<>> ELSE <<QslPair(fields[1])>>)
         \o QslFields(Tail(fields))

\* parse_qsl(qs, keep_blank_values=True)
ParseQsl(qs) == IF qs = <<>> THEN <<>> ELSE QslFields(Split(qs, "&"))

\* urlencode(query, doseq=True) for a list of pairs of strings
RECURSIVE UrlencodeFields(_)
UrlencodeFields(query) ==
    IF query = <<>> THEN <<>>
    ELSE <<QuotePlus(query[1][1]) \o <<"=">> \o QuotePlus(query[1][2])>>
         \o UrlencodeFields(Tail(query))

Urlencode(query) == Join(UrlencodeFields(query), <<"&">>)

-----------------------------------------------------------------------------
(* link_collect.normalize_url *)

\* TRACKER_KEYS
TrackerKeys == { <<"f", "b", "c", "l", "i", "d">>, <<"g", "c", "l", "i", "d">> }

\* if netloc.startswith("www."): netloc = netloc[4:]
StripWww(netloc) ==
    IF StartsWith(netloc, <<"w", "w", "w", ".">>) THEN Drop(netloc, 4) ELSE netloc

\* The filter with the TRACKER_KEYS test left out
KeepPairUtmOnly(kv) == ~StartsWith(kv[1], <<"u", "t", "m", "_">>)

\* not k.startswith("utm_") and k not in TRACKER_KEYS
KeepPair(kv) == ~StartsWith(kv[1], <<"u", "t", "m", "_">>) /\ kv[1] \notin TrackerKeys

\* if normalized.endswith("/") and path != "/": normalized = normalized.rstrip("/")
StripTrailingSlash(normalized, path) ==
    IF EndsWith(normalized, <<"/">>) /\ path # <<"/">>
    THEN RStrip(normalized, {"/"})
    ELSE normalized

\* scheme = parts.scheme.lower() or "https"
SchemeOrHttps(scheme) == IF scheme = <<>> THEN <<"h", "t", "t", "p", "s">> ELSE scheme

\* path = parts.path or "/"
PathOrRoot(path) == IF path = <<>> THEN <<"/">> ELSE path

\* query = [(k, v) for k, v in parse_qsl(...) if ...]
FilterQuery(pairs) == SelectSeq(pairs, KeepPair)

\* normalized = urlunsplit((scheme, netloc, path, urlencode(query, doseq=True), ""))
\* and the trailing-slash rule
Reassemble(scheme, netloc, path, query) ==
    StripTrailingSlash(Urlunsplit(scheme, netloc, path, Urlencode(query), <<>>), path)

\* normalize_url(u): the string returned, or raised = TRUE when urlsplit raises
NormalizeSplit(parts) ==
    IF parts.raised THEN [ raised |-> TRUE, value |-> <<>> ]
    ELSE [ raised |-> FALSE,
           value  |-> Reassemble(SchemeOrHttps(Lower(parts.scheme)),
                                 StripWww(Lower(parts.netloc)),
                                 Normpath(PathOrRoot(parts.path)),
                                 FilterQuery(ParseQsl(parts.query))) ]

NormalizeUrl(u) == NormalizeSplit(Urlsplit(u))

-----------------------------------------------------------------------------
(* Inputs of normalize_url: a scheme, an authority, a path, a query and a   *)
(* fragment part, concatenated into one string that urlsplit parses afresh  *)

\* Most "www." prefixes in front of a host
MaxWww == 2

\* Most slashes in a path made of slashes only
MaxSlashes == 3

RECURSIVE Repeat(_, _)
Repeat(s, n) == IF n = 0 THEN <<>> ELSE s \o Repeat(s, n - 1)

SchemeParts == { <<>>, <<"h", "t", "t", "p", "s", ":">>, <<"H", "T", "T", "P", ":">> }

AuthorityParts ==
    { <<>>, <<"/", "/", "W", "W", "W", ".", "X", ".", "c", "o">>, <<"/", "/", "[">> } \cup
    { <<"/", "/">> \o Repeat(<<"w", "w", "w", ".">>, n) \o <<"x", ".", "c", "o">> : n \in 0..MaxWww }

PathParts ==
    { <<>>, <<"/", "a">>, <<"/", "a", "/">>, <<"/", "a", "/", ".", ".", "/", "b">>, <<"/", ".", "/", "a", "/", "/", "b">>, <<"/", ".", ".">> } \cup
    { Repeat(<<"/">>, n) : n \in 1..MaxSlashes }

QueryParts ==
    { <<>>, <<"?", "k", "=", "v">>, <<"?", "u", "t", "m", "_", "s", "=", "1">>, <<"?", "f", "b", "c", "l", "i", "d", "=", "1", "&", "k", "=", "v">>, <<"?", "k">>,
      <<"?", "k", "=", "a", "+", "b", "&", "g", "c", "l", "i", "d", "=", "2">>, <<"?", "b", "=", "%", "2", "F", "&", "&", "a", "=", "1">> }

FragmentParts == { <<>>, <<"#", "f">> }

\* The URL of test_normalize_and_same_host and the string it expects
TestUrl ==
    <<"H", "T", "T", "P", "S", ":", "/", "/", "w", "w", "w", ".", "E", "x", "a", "m", "p", "l", "e", ".", "c", "o", "m", "/", "p", "a", "t", "h", "/", ".", ".", "/", "p", "a", "g", "e">> \o
    <<"?", "u", "t", "m", "_", "s", "o", "u", "r", "c", "e", "=", "t", "e", "s", "t", "&", "f", "b", "c", "l", "i", "d", "=", "1", "#", "s", "e", "c", "t", "i", "o", "n">>

TestNormalized == <<"h", "t", "t", "p", "s", ":", "/", "/", "e", "x", "a", "m", "p", "l", "e", ".", "c", "o", "m", "/", "p", "a", "g", "e">>

UrlInputs ==
    { s \o a \o p \o q \o f :
        s \in SchemeParts, a \in AuthorityParts, p \in PathParts,
        q \in QueryParts, f \in FragmentParts } \cup { TestUrl }

NotRun == [ raised |-> FALSE, value |-> <<>> ]

InitUrl ==
    /\ InitStore
    /\ InitTasks
    /\ IdleFuns
    /\ url \in UrlInputs
    /\ stage = 0
    /\ norm1 = NotRun
    /\ norm2 = NotRun

\* normalize_url(url)
Normalize ==
    /\ stage = 0
    /\ norm1' = NormalizeUrl(url)
    /\ stage' = 1
    /\ UNCHANGED <<url, norm2>>
    /\ UNCHANGED <<storeVars, taskVars, funVars>>

\* normalize_url applied to its own result
NormalizeAgain ==
    /\ stage = 1
    /\ ~norm1.raised
    /\ norm2' = NormalizeUrl(norm1.value)
    /\ stage' = 2
    /\ UNCHANGED <<url, norm1>>
    /\ UNCHANGED <<storeVars, taskVars, funVars>>

UrlNext == Normalize \/ NormalizeAgain

SpecUrl == InitUrl /\ [][UrlNext]_vars

\* C10: normalize_url(normalize_url(u)) = normalize_url(u) for every u on
\* which normalize_url returns.
C10_Idempotent ==
    stage = 2 => (~norm2.raised /\ norm2.value = norm1.value)

-----------------------------------------------------------------------------
(* Claims about normalize_url *)

\* The key of a tracking parameter: the utm_ family, fbclid, gclid
IsTrackerKey(k) ==
    \/ Take(k, 4) = <<"u", "t", "m", "_">>
    \/ k = <<"f", "b", "c", "l", "i", "d">>
    \/ k = <<"g", "c", "l", "i", "d">>

NotTrackerPair(kv) == ~IsTrackerKey(kv[1])

\* The query pairs of a URL, in order
QueryPairs(u) == ParseQsl(Urlsplit(u).query)

Returned1 == stage >= 1 /\ ~norm1.raised

\* C11: the query of normalize_url(url) holds exactly the pairs of url whose
\* key neither starts with utm_ nor is fbclid or gclid, in their original
\* order; the result has no fragment; and the URL of the test suite
\* normalizes to https://example.com/page.
C11_TrackersStripped ==
    Returned1 =>
        /\ QueryPairs(norm1.value) = SelectSeq(QueryPairs(url), NotTrackerPair)
        /\ ~Contains(norm1.value, "#")
        /\ (url = TestUrl => norm1.value = TestNormalized)

\* A URL with a tracker pair in front of another pair, and a fragment
C11_Witness ==
    /\ Returned1
    /\ Len(QueryPairs(url)) = 2
    /\ IsTrackerKey(QueryPairs(url)[1][1])
    /\ QueryPairs(norm1.value) = <<QueryPairs(url)[2]>>
    /\ Urlsplit(url).fragment # <<>>

\* path = posixpath.normpath(parts.path or "/")
NormalizedPath(parts) == Normpath(PathOrRoot(parts.path))

\* normalized = urlunsplit((scheme, netloc, path, urlencode(query, doseq=True), ""))
\* as it is before the trailing-slash rule
Reassembled(parts) ==
    Urlunsplit(SchemeOrHttps(Lower(parts.scheme)), StripWww(Lower(parts.netloc)),
               NormalizedPath(parts), Urlencode(FilterQuery(ParseQsl(parts.query))),
               <<>>)

\* The string with exactly one trailing character removed
DropLast(s) == Take(s, Len(s) - 1)

\* What the trailing-slash rule asks of the reassembled string
OneSlashRemoved(normalized, path) ==
    IF path # <<"/">> /\ EndsWith(normalized, <<"/">>)
    THEN DropLast(normalized)
    ELSE normalized

\* C12: when the normalized path is not "/" and the reassembled string ends
\* with "/", normalize_url returns it with exactly one trailing slash removed;
\* otherwise (the root path included) it returns the reassembled string as is.
C12_ExactlyOneSlash ==
    Returned1 =>
        norm1.value = OneSlashRemoved(Reassembled(Urlsplit(url)),
                                      NormalizedPath(Urlsplit(url)))

\* C13: normalize_url returns a string for every input string; it never
\* raises, whatever the authority holds.
C13_NeverRaises == stage >= 1 => ~norm1.raised

-----------------------------------------------------------------------------
(* link_collect.same_host *)

\* host = urlsplit(url).netloc.lower()
\* if host.startswith("www."): host = host[4:]
HostOf(parts) == StripWww(Lower(parts.netloc))

\* allowed = allowed.lower().lstrip("www."): str.lstrip takes a set of
\* characters and removes every leading 'w' and '.'
StripAllowed(allowed) == LStrip(Lower(allowed), {"w", "."})

\* host == allowed or host.endswith("." + allowed)
HostMatches(host, allowed) == host = allowed \/ EndsWith(host, <<".">> \o allowed)

\* The loop over allowed_hosts
AnyAllowed(host, allowList) ==
    \E i \in DOMAIN allowList : HostMatches(host, StripAllowed(allowList[i]))

\* same_host(u, allowList): the boolean returned, or raised = TRUE when
\* urlsplit raises
SameHostSplit(parts, allowList) ==
    IF parts.raised THEN [ raised |-> TRUE, value |-> FALSE ]
    ELSE [ raised |-> FALSE, value |-> AnyAllowed(HostOf(parts), allowList) ]

SameHost(u, allowList) == SameHostSplit(Urlsplit(u), allowList)

\* Longest allow-list
MaxAllowed == 2

HostNames ==
    { <<>>, <<"e", "x", "a", "m", "p", "l", "e", ".", "c", "o", "m">>, <<"w", "w", "w", ".", "e", "x", "a", "m", "p", "l", "e", ".", "c", "o", "m">>, <<"s", "u", "b", ".", "e", "x", "a", "m", "p", "l", "e", ".", "c", "o", "m">>,
      <<"e", "v", "i", "l", "e", "x", "a", "m", "p", "l", "e", ".", "c", "o", "m">>, <<"e", "v", "i", "l", ".", "c", "o", "m">>, <<"w", "i", "l", "e", "y", ".", "c", "o", "m">>, <<"W", "W", "W", ".", "W", "i", "l", "e", "y", ".", "c", "o", "m">>,
      <<"i", "l", "e", "y", ".", "c", "o", "m">>, <<"x", ".", "i", "l", "e", "y", ".", "c", "o", "m">>, <<"x", ".", "c", "o">>, <<"w", "w", "w", ".", "w", "w", "w", ".", "x", ".", "c", "o">> }

HostUrls ==
    { <<"h", "t", "t", "p", "s", ":", "/", "/">> \o h \o p : h \in HostNames, p \in { <<>>, <<"/", "x">> } } \cup
    { <<"/", "/", "[">> }

AllowedNames ==
    { <<"e", "x", "a", "m", "p", "l", "e", ".", "c", "o", "m">>, <<"E", "x", "a", "m", "p", "l", "e", ".", "c", "o", "m">>, <<"w", "i", "l", "e", "y", ".", "c", "o", "m">>, <<"w", "w", "w", ".", "w", "i", "l", "e", "y", ".", "c", "o", "m">>,
      <<"w", "w", "w", ".", "w", "w", "w", ".", "x", ".", "c", "o">> }

AllowLists == UNION { [1..n -> AllowedNames] : n \in 0..MaxAllowed }

InitHost ==
    /\ InitStore
    /\ InitTasks
    /\ IdleUrl
    /\ IdleLinks
    /\ IdleExtract
    /\ IdleLate
    /\ hostUrl \in HostUrls
    /\ allowedHosts \in AllowLists
    /\ hostStage = 0
    /\ sameHost = [ raised |-> FALSE, value |-> FALSE ]

\* same_host(hostUrl, allowedHosts)
SameHostCall ==
    /\ hostStage = 0
    /\ sameHost' = SameHost(hostUrl, allowedHosts)
    /\ hostStage' = 1
    /\ UNCHANGED <<hostUrl, allowedHosts>>
    /\ UNCHANGED <<storeVars, taskVars, urlVars, linkVars, extractVars, lateVars>>

HostNext == SameHostCall

SpecHost == InitHost /\ [][HostNext]_vars

\* An allowed host as the allow-list names it: lower-cased, one leading
\* "www." removed
AllowedName(a) == StripWww(Lower(a))

\* The host of the url of the call: lower-cased, one leading "www." removed
CalledHost == StripWww(Lower(Urlsplit(hostUrl).netloc))

\* The host is the allowed host or a subdomain of it
IsHostOrSubdomain(host, a) ==
    \/ host = a
    \/ /\ Len(host) > Len(a)
       /\ Drop(host, Len(host) - Len(a)) = a
       /\ host[Len(host) - Len(a)] = "."

HostReturned == hostStage = 1 /\ ~sameHost.raised

\* C14: same_host returns true when the host of the url is an allowed host
\* or a subdomain of one, whatever letter the allowed host starts with.
C14_AcceptsAllowed ==
    HostReturned =>
        \A i \in DOMAIN allowedHosts :
            IsHostOrSubdomain(CalledHost, AllowedName(allowedHosts[i]))
                => sameHost.value

\* C15: same_host returns true only when the host of the url is an allowed
\* host or a dot-bounded subdomain of one.
C15_RejectsOthers ==
    (HostReturned /\ sameHost.value) =>
        \E i \in DOMAIN allowedHosts :
            IsHostOrSubdomain(CalledHost, AllowedName(allowedHosts[i]))

-----------------------------------------------------------------------------
(* link_collect.collect_links_qt *)

\* html = view.page().toHtml(...), or "" when that raises; then the anchors
\* soup.find_all("a", href=True) finds in html, as their href values
Anchors(v) == IF v.raises THEN <<>> ELSE v.hrefs

\* links.add(url)
AddLink(links, u) == links \cup {u}

\* The break test with > in place of >=
LimitExceeded(links, lim) == Cardinality(links) > lim

\* if len(links) >= limit: break
LimitReached(links, lim) == Cardinality(links) >= lim

\* The set kept, left without a list
NoOrder(links) == { <<>> }

\* list(links): the elements of the set, in the order the hash table gives
ListsOf(links) ==
    { l \in [1..Cardinality(links) -> links] :
        \A i, j \in DOMAIN l : i # j => l[i] # l[j] }

RECURSIVE CollectLoop(_, _, _, _)

\* After links.add(url): break, or go on to the next anchor
CollectKept(rest, links, lim, allowList) ==
    IF LimitReached(links, lim) THEN [ raised |-> FALSE, links |-> links ]
    ELSE CollectLoop(rest, links, lim, allowList)

\* if same_host(url, allowed_hosts): ...
CollectChecked(rest, links, lim, allowList, u, same) ==
    IF same.raised THEN [ raised |-> TRUE, links |-> {} ]
    ELSE IF same.value THEN CollectKept(rest, AddLink(links, u), lim, allowList)
    ELSE CollectLoop(rest, links, lim, allowList)

\* url = normalize_url(a["href"]); an exception leaves the function
CollectNormalized(rest, links, lim, allowList, n) ==
    IF n.raised THEN [ raised |-> TRUE, links |-> {} ]
    ELSE CollectChecked(rest, links, lim, allowList, n.value,
                        SameHost(n.value, allowList))

\* for a in soup.find_all("a", href=True): ...
CollectLoop(hrefs, links, lim, allowList) ==
    IF hrefs = <<>> THEN [ raised |-> FALSE, links |-> links ]
    ELSE CollectNormalized(Tail(hrefs), links, lim, allowList,
                           NormalizeUrl(hrefs[1]))

\* collect_links_qt(v, lim, allowList) up to the return statement
CollectLinks(v, lim, allowList) == CollectLoop(Anchors(v), {}, lim, allowList)

\* Most anchors on a page
MaxAnchors == 3

\* Largest limit
MaxLimit == 2

Hrefs ==
    { <<"h", "t", "t", "p", "s", ":", "/", "/", "x", ".", "c", "o", "/", "a">>, <<"h", "t", "t", "p", "s", ":", "/", "/", "w", "w", "w", ".", "x", ".", "c", "o", "/", "a">>, <<"h", "t", "t", "p", "s", ":", "/", "/", "x", ".", "c", "o", "/", "b">>,
      <<"h", "t", "t", "p", "s", ":", "/", "/", "s", "u", "b", ".", "x", ".", "c", "o", "/", "c">>, <<"h", "t", "t", "p", "s", ":", "/", "/", "e", "v", "i", "l", ".", "c", "o", "m", "/", "a">>, <<"/", "/", "[">> }

Pages == UNION { [1..n -> Hrefs] : n \in 0..MaxAnchors }

Views == { [ raises |-> r, hrefs |-> p ] : r \in BOOLEAN, p \in Pages }

\* Limits below one, and up to MaxLimit
Limits == -1..MaxLimit

LinkAllowLists == { <<>>, << <<"x", ".", "c", "o">> >> }

InitLinks ==
    /\ InitStore
    /\ InitTasks
    /\ IdleUrl
    /\ IdleHost
    /\ IdleExtract
    /\ IdleLate
    /\ view \in Views
    /\ limit \in Limits
    /\ linkHosts \in LinkAllowLists
    /\ linkStage = 0
    /\ collected = [ raised |-> FALSE, error |-> "none", links |-> <<>> ]

\* The only exception the function lets out is the ValueError of urlsplit
ErrorOf(result) == IF result.raised THEN "ValueError" ELSE "none"

\* The return statement: list(links), or the exception
Return(result) ==
    \E l \in (IF result.raised THEN NoOrder(result.links) ELSE ListsOf(result.links)) :
        collected' = [ raised |-> result.raised, error |-> ErrorOf(result),
                       links |-> l ]

\* collect_links_qt(view, limit, linkHosts)
CollectLinksQt ==
    /\ linkStage = 0
    /\ Return(CollectLinks(view, limit, linkHosts))
    /\ linkStage' = 1
    /\ UNCHANGED <<view, limit, linkHosts>>
    /\ UNCHANGED <<storeVars, taskVars, urlVars, hostVars, extractVars, lateVars>>

LinksNext == CollectLinksQt

SpecLinks == InitLinks /\ [][LinksNext]_vars

-----------------------------------------------------------------------------
(* Claims about collect_links_qt *)

\* The anchors of the page of the call
Page == Anchors(view)

LinksReturned == linkStage = 1 /\ ~collected.raised

\* The URLs of the list returned
LinkSet == { collected.links[i] : i \in DOMAIN collected.links }

\* The anchor's href normalizes to a URL that passes same_host
Qualifies(h) ==
    /\ ~NormalizeUrl(h).raised
    /\ ~SameHost(NormalizeUrl(h).value, linkHosts).raised
    /\ SameHost(NormalizeUrl(h).value, linkHosts).value

QualifyingAt == { i \in DOMAIN Page : Qualifies(Page[i]) }

QualifyingUrls == { NormalizeUrl(Page[i]).value : i \in QualifyingAt }

\* The position of the first anchor that gives the URL
FirstAt(u) ==
    CHOOSE i \in QualifyingAt :
        /\ NormalizeUrl(Page[i]).value = u
        /\ \A j \in QualifyingAt : NormalizeUrl(Page[j]).value = u => i <= j

\* The first n distinct qualifying URLs in document order
FirstQualifying(n) ==
    { u \in QualifyingUrls :
        Cardinality({ w \in QualifyingUrls : FirstAt(w) < FirstAt(u) }) < n }

\* C16: for a limit >= 1 the list returned holds at most limit URLs, no URL
\* twice, each the normalize_url of an anchor of the page that passes
\* same_host; a URL already kept is not counted again, so a list shorter than
\* limit holds every qualifying URL of the page.
C16_BoundedDistinct ==
    (LinksReturned /\ limit >= 1) =>
        /\ Len(collected.links) <= limit
        /\ \A i, j \in DOMAIN collected.links :
               i # j => collected.links[i] # collected.links[j]
        /\ LinkSet \subseteq QualifyingUrls
        /\ (Len(collected.links) < limit => QualifyingUrls \subseteq LinkSet)

\* Two anchors with the same normalized URL in front of a third one, and a
\* limit of two reached by the third
C16_Witness ==
    /\ LinksReturned
    /\ limit = 2
    /\ Len(Page) = 3
    /\ Page[1] # Page[2]
    /\ QualifyingAt = {1, 2, 3}
    /\ NormalizeUrl(Page[1]).value = NormalizeUrl(Page[2]).value
    /\ Len(collected.links) = 2
    /\ NormalizeUrl(Page[3]).value \in LinkSet

\* C17: when the page holds at least limit distinct qualifying URLs (limit
\* >= 1), collect_links_qt returns exactly limit URLs: the first limit
\* distinct qualifying ones in document order.
C17_FirstLimitLinks ==
    (linkStage = 1 /\ limit >= 1 /\ Cardinality(QualifyingUrls) >= limit) =>
        /\ ~collected.raised
        /\ Len(collected.links) = limit
        /\ LinkSet = FirstQualifying(limit)

\* C18: called with a limit <= 0, collect_links_qt signals InvalidArgument
\* and returns no links.
C18_InvalidLimit ==
    (linkStage = 1 /\ limit <= 0) =>
        /\ collected.error = "InvalidArgument"
        /\ collected.links = <<>>

-----------------------------------------------------------------------------
(* extract.EMAIL_REGEX: [a-zA-Z0-9._%+-]+@[a-zA-Z0-9.-]+\.[A-Za-z]{2,} *)

\* [a-zA-Z0-9._%+-]
LocalChars == Letters \cup Digits \cup {".", "_", "%", "+", "-"}

\* [a-zA-Z0-9.-]
DomainChars == Letters \cup Digits \cup {".", "-"}

\* The last position of the longest run of characters of the class that
\* starts at position i (i - 1 when text[i] is not of the class)
RunEnd(text, i, class) ==
    CHOOSE j \in (i - 1)..Len(text) :
        /\ \A k \in i..j : text[k] \in class
        /\ (j = Len(text) \/ text[j + 1] \notin class)

MaxOf(S) == CHOOSE x \in S : \A y \in S : y <= x

\* The dots of the domain run a..b that have a domain character before them
\* and at least two letters after them: where \.[A-Za-z]{2,} can start
TldDots(text, a, b) ==
    { p \in (a + 1)..(b - 2) :
        text[p] = "." /\ text[p + 1] \in Letters /\ text[p + 2] \in Letters }

\* [a-zA-Z0-9.-]+ is greedy: it gives back characters until a dot followed
\* by two letters is found, so the last such dot is taken, and {2,} then
\* takes every letter that follows. 0 when there is no such dot.
TldEnd(text, dots) ==
    IF dots = {} THEN 0 ELSE RunEnd(text, MaxOf(dots) + 1, Letters)

DomainEnd(text, a, b) == TldEnd(text, TldDots(text, a, b))

\* The local part i..j is the whole run of local characters (none of them is
\* '@'), and '@' has to follow it
AfterLocal(text, i, j) ==
    IF j < i \/ j + 1 > Len(text) THEN 0
    ELSE IF text[j + 1] # "@" THEN 0
    ELSE DomainEnd(text, j + 2, RunEnd(text, j + 2, DomainChars))

\* EMAIL_REGEX.match(text, i - 1): the last position of the match that starts
\* at position i, 0 when there is none
MatchEnd(text, i) == AfterLocal(text, i, RunEnd(text, i, LocalChars))

\* EMAIL_REGEX.fullmatch(s)
FullMatch(s) == s # <<>> /\ MatchEnd(s, 1) = Len(s)

\* [m.group(0) for m in EMAIL_REGEX.finditer(text)], scanning from pos
RECURSIVE FindIter(_, _)
FoundAt(text, pos, end) ==
    IF end = 0 THEN FindIter(text, pos + 1)
    ELSE <<SubSeq(text, pos, end)>> \o FindIter(text, end + 1)

FindIter(text, pos) ==
    IF pos > Len(text) THEN <<>> ELSE FoundAt(text, pos, MatchEnd(text, pos))

-----------------------------------------------------------------------------
(* extract._dedup and extract.extract_emails_from_html *)

\* The key of _dedup, with e.lower() left out
KeepCase(e) == e

\* e = e.lower()
LowerEmail(e) == Lower(e)

\* if e not in seen: seen.add(e); result.append(e)
DedupStep(e, result) ==
    IF \E i \in DOMAIN result : result[i] = e THEN result ELSE Append(result, e)

\* _dedup(emails)
RECURSIVE Dedup(_, _)
Dedup(emails, result) ==
    IF emails = <<>> THEN result
    ELSE Dedup(Tail(emails), DedupStep(LowerEmail(emails[1]), result))

\* a[href^=mailto]: an anchor whose href value starts with the six letters
IsMailtoTag(node) ==
    node.tag = "a" /\ StartsWith(node.href, <<"m", "a", "i", "l", "t", "o">>)

\* soup.select("a[href^=mailto]")
SelectMailto(nodes) == SelectSeq(nodes, IsMailtoTag)

\* addr = tag.get("href", "")[7:]; addr = addr.split("?")[0]
MailtoAddr(node) == CutOff(Drop(node.href, 7), "?")[1]

\* The loop of step 1 over the selected tags
RECURSIVE MailtoLoop(_)
MailtoLoop(tags) ==
    IF tags = <<>> THEN <<>>
    ELSE (IF FullMatch(MailtoAddr(tags[1])) THEN <<MailtoAddr(tags[1])>> ELSE <<>>)
         \o MailtoLoop(Tail(tags))

MailtoEmails(nodes) == MailtoLoop(SelectMailto(nodes))

\* The strings of the document: the text of every node that has some
HasText(node) == node.text # <<>>

RECURSIVE Texts(_)
Texts(nodes) ==
    IF nodes = <<>> THEN <<>> ELSE <<nodes[1].text>> \o Texts(Tail(nodes))

\* soup.get_text(" ")
GetText(nodes) == Join(Texts(SelectSeq(nodes, HasText)), <<" ">>)

\* The emails found in the visible text
TextEmails(nodes) == FindIter(GetText(nodes), 1)

\* extract_emails_from_html(html)
ExtractEmails(nodes) == Dedup(MailtoEmails(nodes) \o TextEmails(nodes), <<>>)

\* Most nodes of a page
MaxNodes == 3

Anchor(href, text) == [ tag |-> "a", href |-> href, text |-> text ]

TextNode(text) == [ tag |-> "text", href |-> <<>>, text |-> text ]

Nodes ==
    { Anchor(<<"m", "a", "i", "l", "t", "o", ":", "a", "@", "b", ".", "c", "o">>, <<"A">>),
      Anchor(<<"m", "a", "i", "l", "t", "o", ":", "A", "@", "B", ".", "c", "o", "?", "s", "u", "b", "j", "e", "c", "t", "=", "x">>, <<"a", "@", "b", ".", "c", "o">>),
      Anchor(<<"m", "a", "i", "l", "t", "o", ":", "x", " ", "a", "@", "b", ".", "c", "o">>, <<>>),
      Anchor(<<"m", "a", "i", "l", "t", "o", "x", "c", "@", "d", ".", "d", "e">>, <<"c">>),
      Anchor(<<"h", "t", "t", "p", "s", ":", "/", "/", "x", ".", "c", "o", "/", "a">>, <<"c", "@", "d", ".", "d", "e">>),
      TextNode(<<"c", "@", "d", ".", "d", "e">>),
      TextNode(<<"t", "o", " ", "a", "@", "b", ".", "c", "o", ".", "x", "1", " ", "o", "r">>),
      TextNode(<<"A", "@", "b", ".", "c", "o", ",", " ", "e", "@", "f">>) }

\* The page of test_email_priority_and_dedup, each run of white space
\* written as one space
TestPage ==
    << TextNode(<<" ">>),
       Anchor(<<"m", "a", "i", "l", "t", "o", ":", "f", "i", "r", "s", "t", "@", "e", "x", "a", "m", "p", "l", "e", ".", "c", "o", "m">>, <<"f", "i", "r", "s", "t">>),
       TextNode(<<" ", "f", "i", "r", "s", "t", "@", "e", "x", "a", "m", "p", "l", "e", ".", "c", "o", "m", " ">>),
       Anchor(<<"m", "a", "i", "l", "t", "o", ":", "s", "e", "c", "o", "n", "d", "@", "e", "x", "a", "m", "p", "l", "e", ".", "c", "o", "m">>, <<"s", "e", "c", "o", "n", "d">>),
       TextNode(<<" ", "s", "e", "c", "o", "n", "d", "@", "e", "x", "a", "m", "p", "l", "e", ".", "c", "o", "m", " ">>),
       TextNode(<<" ">>) >>

TestEmails == << <<"f", "i", "r", "s", "t", "@", "e", "x", "a", "m", "p", "l", "e", ".", "c", "o", "m">>, <<"s", "e", "c", "o", "n", "d", "@", "e", "x", "a", "m", "p", "l", "e", ".", "c", "o", "m">> >>

HtmlPages == UNION { [1..n -> Nodes] : n \in 0..MaxNodes } \cup { TestPage }

InitExtract ==
    /\ InitStore
    /\ InitTasks
    /\ IdleUrl
    /\ IdleHost
    /\ IdleLinks
    /\ IdleLate
    /\ html \in HtmlPages
    /\ extractStage = 0
    /\ extracted = [ mailto |-> <<>>, emails |-> <<>> ]

\* extract_emails_from_html(html)
ExtractEmailsFromHtml ==
    /\ extractStage = 0
    /\ extracted' = [ mailto |-> MailtoEmails(html), emails |-> ExtractEmails(html) ]
    /\ extractStage' = 1
    /\ UNCHANGED html
    /\ UNCHANGED <<storeVars, taskVars, urlVars, hostVars, linkVars, lateVars>>

ExtractNext == ExtractEmailsFromHtml

SpecExtract == InitExtract /\ [][ExtractNext]_vars

-----------------------------------------------------------------------------
(* Claims about extract_emails_from_html *)

\* The list returned
ReturnedEmails == extracted.emails

\* The candidates in the order of the two steps: the addresses of the mailto
\* step in document order, then the matches in the visible text
Candidates == extracted.mailto \o TextEmails(html)

Lowered == [ i \in DOMAIN Candidates |-> Lower(Candidates[i]) ]

\* The position of the first candidate that is the address, case ignored
FirstOccurrence(e) ==
    CHOOSE i \in DOMAIN Lowered :
        Lowered[i] = e /\ \A j \in 1..(i - 1) : Lowered[j] # e

\* The address comes from a mailto link
FromMailto(e) == \E i \in DOMAIN extracted.mailto : Lower(extracted.mailto[i]) = e

IsMailtoLink(node) == node.tag = "a" /\ Take(node.href, 7) = <<"m", "a", "i", "l", "t", "o", ":">>

\* The text after the prefix, up to and not including the first '?'
AfterPrefix(node) == Drop(node.href, 7)

LinkCandidate(node) ==
    IF Contains(AfterPrefix(node), "?")
    THEN Take(AfterPrefix(node), Find(AfterPrefix(node), "?") - 1)
    ELSE AfterPrefix(node)

KeptLink(node) == IsMailtoLink(node) /\ FullMatch(LinkCandidate(node))

KeptLinks == SelectSeq(html, KeptLink)

\* C20: the addresses of the mailto step are those of the hyperlinks whose
\* target begins with "mailto:", each the text after the prefix up to the
\* first '?', kept only when the whole candidate matches the pattern.
C20_MailtoStep ==
    extractStage = 1 =>
        extracted.mailto = [ i \in DOMAIN KeptLinks |-> LinkCandidate(KeptLinks[i]) ]

-----------------------------------------------------------------------------
(* exporters.export_csv, exporters.export_xlsx and the export actions of    *)
(* MainWindow. A value is a cell: its Python type and its str() text.       *)

StrCell(s) == [ t |-> "str", v |-> s ]

\* str(True) = "True", str(False) = "False"
BoolCell(b) == [ t |-> "bool", v |-> IF b THEN "True" ELSE "False" ]

\* None: csv writes it as the empty string, openpyxl as an empty cell
NoneCell == [ t |-> "none", v |-> "" ]

\* The header of exporters.export_csv and exporters.export_xlsx
Headers ==
    <<"id", "email", "journal", "topic", "verified", "duplicate", "source_url",
      "timestamp_utc">>

\* The header of MainWindow.export_csv and MainWindow.export_xlsx
UiHeaders ==
    <<"name", "email", "journal", "topic", "verified", "duplicate", "source_url",
      "timestamp_utc">>

\* csv.DictWriter.writerow(rowdict): one text per field name, the empty
\* string (restval) for a missing key
DictRow(fieldnames, rowdict) ==
    [ i \in DOMAIN fieldnames |->
        IF fieldnames[i] \in DOMAIN rowdict THEN rowdict[fieldnames[i]].v ELSE "" ]

\* [getattr(r, h) for h in headers]
AttrRow(fieldnames, r) == [ i \in DOMAIN fieldnames |-> r[fieldnames[i]] ]

\* for r in records: writer.writerow(r.__dict__)
CsvRows(fieldnames, recs) == [ i \in DOMAIN recs |-> DictRow(fieldnames, recs[i]) ]

\* for r in records: ws.append([getattr(r, h) for h in headers])
XlsxRows(fieldnames, recs) == [ i \in DOMAIN recs |-> AttrRow(fieldnames, recs[i]) ]

\* {"email": email, "verified": False, "timestamp_utc": datetime.utcnow().isoformat()}
UiRowDict(email, now) ==
    [ k \in {"email", "verified", "timestamp_utc"} |->
        IF k = "email" THEN StrCell(email)
        ELSE IF k = "verified" THEN BoolCell(FALSE)
        ELSE StrCell(now) ]

\* ["", email, "", "", False, False, "", datetime.utcnow().isoformat()]
UiXlsxRow(email, now) ==
    << StrCell(""), StrCell(email), StrCell(""), StrCell(""), BoolCell(FALSE),
       BoolCell(FALSE), StrCell(""), StrCell(now) >>

\* Most records, and most items of the list widget, in one export
MaxRows == 2

\* Record(id, email, journal, topic, verified, duplicate, source_url, timestamp_utc)
ExportRecord(id, email, topic, verified, duplicate, now) ==
    [ id            |-> StrCell(id),
      email         |-> StrCell(email),
      journal       |-> StrCell("J"),
      topic         |-> topic,
      verified      |-> StrCell(verified),
      duplicate     |-> BoolCell(duplicate),
      source_url    |-> StrCell("https://x.co/a"),
      timestamp_utc |-> StrCell(now) ]

\* What datetime.utcnow().isoformat() can give
Times == { "2024-01-01T00:00:00", "2024-01-01T00:00:01" }

ExportRecords ==
    { ExportRecord("id1", "a@x.co", NoneCell, "unknown", FALSE, "2024-01-01T00:00:00"),
      ExportRecord("id2", "a@x.co", StrCell("T"), "unknown", TRUE, "2024-01-01T00:00:01"),
      ExportRecord("id3", "b@x.co", StrCell("T"), "true", FALSE, "2024-01-01T00:00:01") }

ListTexts == { "a@x.co", "b@x.co" }

\* The path argument, or what the file dialog gives: "" when it is cancelled
Paths == { "", "emails.out" }

InitExport ==
    /\ InitStore
    /\ InitTasks
    /\ IdleUrl
    /\ IdleHost
    /\ IdleLinks
    /\ IdleExtract
    /\ InitCounters
    /\ IdleWait
    /\ expRecords \in UNION { [1..n -> ExportRecords] : n \in 0..MaxRows }
    /\ emailList \in UNION { [1..n -> ListTexts] : n \in 0..MaxRows }
    /\ exportStage = 0
    /\ exported = [ by |-> "none", format |-> "none", wrote |-> FALSE,
                    header |-> <<>>, rows |-> <<>> ]

\* exporters.export_csv(expRecords, path)
ExportCsv ==
    /\ exportStage = 0
    /\ exported' = [ by |-> "exporters", format |-> "csv", wrote |-> TRUE,
                     header |-> Headers, rows |-> CsvRows(Headers, expRecords) ]
    /\ exportStage' = 1
    /\ UNCHANGED <<expRecords, emailList>>
    /\ UNCHANGED <<storeVars, taskVars, urlVars, hostVars, linkVars, extractVars, counterVars,
                   waitVars>>

\* exporters.export_xlsx(expRecords, path)
ExportXlsx ==
    /\ exportStage = 0
    /\ exported' = [ by |-> "exporters", format |-> "xlsx", wrote |-> TRUE,
                     header |-> Headers, rows |-> XlsxRows(Headers, expRecords) ]
    /\ exportStage' = 1
    /\ UNCHANGED <<expRecords, emailList>>
    /\ UNCHANGED <<storeVars, taskVars, urlVars, hostVars, linkVars, extractVars, counterVars,
                   waitVars>>

\* if not path: return
NothingWritten(format) ==
    [ by |-> "MainWindow", format |-> format, wrote |-> FALSE,
      header |-> <<>>, rows |-> <<>> ]

\* MainWindow.export_csv(path)
MainWindowExportCsv ==
    /\ exportStage = 0
    /\ \E path \in Paths, now \in [DOMAIN emailList -> Times] :
          exported' =
              IF path = "" THEN NothingWritten("csv")
              ELSE [ by |-> "MainWindow", format |-> "csv", wrote |-> TRUE,
                     header |-> UiHeaders,
                     rows |-> [ i \in DOMAIN emailList |->
                                  DictRow(UiHeaders, UiRowDict(emailList[i], now[i])) ] ]
    /\ exportStage' = 1
    /\ UNCHANGED <<expRecords, emailList>>
    /\ UNCHANGED <<storeVars, taskVars, urlVars, hostVars, linkVars, extractVars, counterVars,
                   waitVars>>

\* MainWindow.export_xlsx(path)
MainWindowExportXlsx ==
    /\ exportStage = 0
    /\ \E path \in Paths, now \in [DOMAIN emailList -> Times] :
          exported' =
              IF path = "" THEN NothingWritten("xlsx")
              ELSE [ by |-> "MainWindow", format |-> "xlsx", wrote |-> TRUE,
                     header |-> UiHeaders,
                     rows |-> [ i \in DOMAIN emailList |->
                                  UiXlsxRow(emailList[i], now[i]) ] ]
    /\ exportStage' = 1
    /\ UNCHANGED <<expRecords, emailList>>
    /\ UNCHANGED <<storeVars, taskVars, urlVars, hostVars, linkVars, extractVars, counterVars,
                   waitVars>>

ExportNext ==
    \/ ExportCsv
    \/ ExportXlsx
    \/ MainWindowExportCsv
    \/ MainWindowExportXlsx

SpecExport == InitExport /\ [][ExportNext]_vars

\* The columns of an export, in order
RecordColumns ==
    <<"id", "email", "journal", "topic", "verified", "duplicate", "source_url",
      "timestamp_utc">>

\* The field values of a record in column order: as texts in a CSV file, as
\* values in a spreadsheet
FieldValues(format, r) ==
    [ i \in DOMAIN RecordColumns |->
        IF format = "csv" THEN r[RecordColumns[i]].v ELSE r[RecordColumns[i]] ]

\* C21: every export that writes a file writes the header id, email, journal,
\* topic, verified, duplicate, source_url, timestamp_utc, in this order, and
\* each row holds the field values of one record: the i-th record handed to
\* the exporter, or for the main window some record with the item's email.
C21_ExportColumns ==
    (exportStage = 1 /\ exported.wrote) =>
        /\ exported.header = RecordColumns
        /\ (exported.by = "exporters" =>
               /\ Len(exported.rows) = Len(expRecords)
               /\ \A i \in DOMAIN exported.rows :
                      exported.rows[i] = FieldValues(exported.format, expRecords[i]))
        /\ (exported.by = "MainWindow" =>
               /\ Len(exported.rows) = Len(emailList)
               /\ \A i \in DOMAIN exported.rows :
                      exported.rows[i][2] =
                          FieldValues(exported.format,
                                      ExportRecord("", emailList[i], NoneCell, "",
                                                   FALSE, ""))[2])

-----------------------------------------------------------------------------
(* The invariant of the store between calls *)

\* The records of the history that are not duplicates
NonDuplicateAt == { i \in DOMAIN records : ~records[i].duplicate }

\* C22: between calls the SeenSet is the set of the lower-cased emails of the
\* records whose duplicate flag is false, each entry of the SeenSet has
\* exactly one such record, and an add_records call only adds to the SeenSet.
C22_SeenSetInvariant ==
    /\ seen = { Lower(records[i].email) : i \in NonDuplicateAt }
    /\ \A e \in seen :
           Cardinality({ i \in NonDuplicateAt : Lower(records[i].email) = e }) = 1
    /\ (last.op = "add" => last.preSeen \subseteq seen)

-----------------------------------------------------------------------------
(* stats.Counters *)

\* _rollover that forgets pages_today
RolloverEmailsOnly(c, d) ==
    IF d # c.lastDate
    THEN [c EXCEPT !.emails_today = 0, !.lastDate = d]
    ELSE c

\* _rollover(), d being what date.today() returns
Rollover(c, d) ==
    IF d # c.lastDate
    THEN [c EXCEPT !.emails_today = 0, !.pages_today = 0, !.lastDate = d]
    ELSE c

\* self.emails_today += n; self.emails_session += n
AddEmails(c, n) ==
    [c EXCEPT !.emails_today = @ + n, !.emails_session = @ + n]

\* self.pages_today += 1; self.pages_session += 1
AddPage(c) == [c EXCEPT !.pages_today = @ + 1, !.pages_session = @ + 1]

\* Last calendar date
MaxDate == 2

\* Largest n of one inc_emails call
MaxInc == 2

\* Most emails counted, and most pages counted, in a behaviour
MaxEmails == 4

MaxPages == 3

\* inc_emails(n), n >= 0
IncEmails ==
    \E n \in 0..MaxInc :
        /\ sums.emails + n <= MaxEmails
        /\ counters' = AddEmails(Rollover(counters, today), n)
        /\ sums' = [sums EXCEPT !.emails = @ + n]
        /\ lastInc' = [ op |-> "inc_emails", n |-> n, date |-> today, pre |-> counters ]
        /\ UNCHANGED today
        /\ UNCHANGED <<storeVars, taskVars, urlVars, hostVars, linkVars, extractVars,
                       exportVars, waitVars>>

\* inc_pages()
IncPages ==
    /\ sums.pages < MaxPages
    /\ counters' = AddPage(Rollover(counters, today))
    /\ sums' = [sums EXCEPT !.pages = @ + 1]
    /\ lastInc' = [ op |-> "inc_pages", n |-> 1, date |-> today, pre |-> counters ]
    /\ UNCHANGED today
    /\ UNCHANGED <<storeVars, taskVars, urlVars, hostVars, linkVars, extractVars,
                   exportVars, waitVars>>

\* The calendar date advances between two calls
AdvanceDate ==
    /\ today < MaxDate
    /\ \E d \in (today + 1)..MaxDate : today' = d
    /\ UNCHANGED <<counters, sums, lastInc>>
    /\ UNCHANGED <<storeVars, taskVars, urlVars, hostVars, linkVars, extractVars,
                   exportVars, waitVars>>

CountersNext == IncEmails \/ IncPages \/ AdvanceDate

InitCountersSpec ==
    /\ InitStore
    /\ InitTasks
    /\ IdleUrl
    /\ IdleHost
    /\ IdleLinks
    /\ IdleExtract
    /\ IdleExport
    /\ IdleWait
    /\ InitCounters

SpecCounters == InitCountersSpec /\ [][CountersNext]_vars

\* The last call saw a date other than the one the object remembered
SawDateChange == lastInc.op # "none" /\ lastInc.date # lastInc.pre.lastDate

\* What the last call added to the emails counters, and to the pages counters
EmailsAdded == IF lastInc.op = "inc_emails" THEN lastInc.n ELSE 0

PagesAdded == IF lastInc.op = "inc_pages" THEN 1 ELSE 0

\* C23: a today counter never exceeds its session counter; the session
\* counters are the sums of all increments; a call that sees a date change
\* starts both today counters from zero before adding its increment, a call
\* that sees none adds to them; no call changes a session counter by anything
\* but its increment.
C23_CountersInvariant ==
    /\ counters.emails_today <= counters.emails_session
    /\ counters.pages_today <= counters.pages_session
    /\ counters.emails_session = sums.emails
    /\ counters.pages_session = sums.pages
    /\ lastInc.op # "none" =>
           /\ counters.emails_session = lastInc.pre.emails_session + EmailsAdded
           /\ counters.pages_session = lastInc.pre.pages_session + PagesAdded
           /\ counters.emails_today =
                  (IF SawDateChange THEN 0 ELSE lastInc.pre.emails_today) + EmailsAdded
           /\ counters.pages_today =
                  (IF SawDateChange THEN 0 ELSE lastInc.pre.pages_today) + PagesAdded

\* An inc_emails call sees a new date while both today counters are positive
C23_Witness ==
    /\ lastInc.op = "inc_emails"
    /\ lastInc.n > 0
    /\ SawDateChange
    /\ lastInc.pre.emails_today > 0
    /\ lastInc.pre.pages_today > 0
    /\ counters.emails_today = lastInc.n
    /\ counters.pages_today = 0
    /\ counters.emails_session > counters.emails_today

(***************************************************************************)
(* app/navigation.py: wait_for_load(view, timeout).  The call is followed  *)
(* statement by statement.  The Qt event loop is the environment: while    *)
(* loop.exec() runs it delivers one signal at a time, and exec() returns   *)
(* once a delivered signal has called loop.quit.  Time is counted in ticks *)
(* of the timer's remaining interval.                                      *)
(***************************************************************************)

\* A timer that is not single-shot stays active after its timeout signal
RepeatingTimeoutFired(w) ==
    [w EXCEPT !.quit = TRUE, !.order = Append(@, "timer")]

\* timer.setSingleShot(True); timer.timeout.connect(loop.quit): the timer fires
\* once, is inactive from then on, and its signal quits the loop
TimeoutFired(w) ==
    [w EXCEPT !.timerActive = FALSE, !.quit = TRUE, !.order = Append(@, "timer")]

\* view.loadFinished.connect(loop.quit): the page's signal quits the loop
LoadFinishedFired(w) ==
    [w EXCEPT !.quit = TRUE, !.order = Append(@, "load")]

\* except Exception: return False, the view has no loadFinished signal
NoSignal(w) == [w EXCEPT !.pc = "done", !.result = FALSE]

\* timer.start(timeout)
TimerStarted(w, t) ==
    [w EXCEPT !.pc = "exec", !.timerActive = TRUE, !.remaining = t]

\* finished = timer.isActive()
IsActive(w) == [w EXCEPT !.pc = "stop", !.finished = w.timerActive]

\* timer.stop()
TimerStopped(w) == [w EXCEPT !.pc = "return", !.timerActive = FALSE]

\* The longest timeout a call is given, in ticks
MaxTimeout == 4

InitWait ==
    /\ InitStore
    /\ InitTasks
    /\ IdleUrl
    /\ IdleHost
    /\ IdleLinks
    /\ IdleExtract
    /\ IdleExport
    /\ InitCounters
    /\ hasSignal \in BOOLEAN
    /\ timeout \in 0..MaxTimeout
    /\ wait = NotWaiting

WaitFrame ==
    UNCHANGED <<storeVars, taskVars, urlVars, hostVars, linkVars, extractVars,
                exportVars, counterVars, hasSignal, timeout>>

\* The loop and the timer are made and wired; connecting to view.loadFinished
\* raises when the view has no such signal, and the call returns False
WaitConnect ==
    /\ wait.pc = "start"
    /\ wait' = IF hasSignal THEN [wait EXCEPT !.pc = "timer_start"] ELSE NoSignal(wait)
    /\ WaitFrame

WaitTimerStart ==
    /\ wait.pc = "timer_start"
    /\ wait' = TimerStarted(wait, timeout)
    /\ WaitFrame

\* loop.exec() is entered; the loop starts with its exit flag down
WaitExec ==
    /\ wait.pc = "exec"
    /\ wait' = [wait EXCEPT !.pc = "loop", !.entered = TRUE, !.quit = FALSE]
    /\ WaitFrame

\* loop.exec() returns once loop.quit has been called
WaitExecReturns ==
    /\ wait.pc = "loop"
    /\ wait.quit
    /\ wait' = [wait EXCEPT !.pc = "is_active"]
    /\ WaitFrame

WaitIsActive ==
    /\ wait.pc = "is_active"
    /\ wait' = IsActive(wait)
    /\ WaitFrame

WaitTimerStop ==
    /\ wait.pc = "stop"
    /\ wait' = TimerStopped(wait)
    /\ WaitFrame

WaitReturn ==
    /\ wait.pc = "return"
    /\ wait' = [wait EXCEPT !.pc = "done", !.result = wait.finished]
    /\ WaitFrame

\* The statements of wait_for_load
WaitStep ==
    \/ WaitConnect
    \/ WaitTimerStart
    \/ WaitExec
    \/ WaitExecReturns
    \/ WaitIsActive
    \/ WaitTimerStop
    \/ WaitReturn

\* Time passes for a running timer
Tick ==
    /\ wait.timerActive
    /\ wait.remaining > 0
    /\ wait' = [wait EXCEPT !.remaining = @ - 1]
    /\ WaitFrame

\* The running loop delivers the timer's timeout signal once it is due
TimerFires ==
    /\ wait.pc = "loop"
    /\ ~wait.quit
    /\ wait.timerActive
    /\ wait.remaining = 0
    /\ wait' = TimeoutFired(wait)
    /\ WaitFrame

\* The running loop delivers the view's loadFinished signal, if the page
\* ever finishes loading
LoadFinished ==
    /\ wait.pc = "loop"
    /\ ~wait.quit
    /\ hasSignal
    /\ wait' = LoadFinishedFired(wait)
    /\ WaitFrame

WaitNext == WaitStep \/ Tick \/ TimerFires \/ LoadFinished

\* The call runs on, time passes and a due timer fires; whether the page ever
\* finishes loading is left open
SpecWait ==
    /\ InitWait
    /\ [][WaitNext]_vars
    /\ WF_vars(WaitStep)
    /\ WF_vars(Tick)
    /\ WF_vars(TimerFires)

\* wait_for_load has returned
WaitReturned == wait.pc = "done"

\* The loadFinished signal was delivered before the timer's timeout
LoadFiredFirst == wait.order # <<>> /\ wait.order[1] = "load"

\* The timer's timeout was delivered before any loadFinished signal
TimerFiredFirst == wait.order # <<>> /\ wait.order[1] = "timer"

\* The timeout has been delivered
TimeoutDelivered == \E i \in 1..Len(wait.order) : wait.order[i] = "timer"

\* The event loop is running and nothing has asked it to quit
LoopWaiting == wait.pc = "loop" /\ ~wait.quit

\* C24: wait_for_load returns true exactly when loadFinished fired before the
\* single-shot timer expired, false when the timer expired first, and false
\* without entering the event loop when the view has no loadFinished signal;
\* once the loop is entered the call returns, and the loop is no longer
\* waiting from the moment the timeout fires.
C24_WaitForLoad ==
    /\ [](WaitReturned => (wait.result <=> LoadFiredFirst))
    /\ [](WaitReturned /\ TimerFiredFirst => ~wait.result)
    /\ [](WaitReturned /\ ~hasSignal => ~wait.result /\ ~wait.entered)
    /\ [](~hasSignal => wait.pc \in {"start", "done"})
    /\ [](TimeoutDelivered => ~LoopWaiting)
    /\ (wait.entered ~> WaitReturned)

\* A call that returned True for a page that finished loading while the timer
\* was part-way through its interval
C24_Witness ==
    /\ WaitReturned
    /\ wait.result
    /\ wait.entered
    /\ wait.order = <<"load">>
    /\ wait.remaining > 0
    /\ wait.remaining < timeout

====
